---- MODULE Spec2Model ----
(***************************************************************************)
(* Model of the inventory reconciliation (WMSERPReconciliation) and of the *)
(* negative stock detector (NegativeStockDetector).                        *)
(*                                                                         *)
(* A pandas DataFrame is a record [columns, rows]: rows is the sequence of *)
(* its rows in index order.  pd.DataFrame([]) has no columns, so selecting *)
(* or joining on a column of a frame built from an empty list raises       *)
(* KeyError.  Columns no computation reads (last_updated, adjusted_at,     *)
(* the by_location and severity summaries) are left out.                   *)
(***************************************************************************)
EXTENDS Integers, Sequences, FiniteSets

VARIABLES
    tolerance,        \* self.tolerance, in hundredths (1 is 0.01)
    rpc,              \* position of the caller of the reconciliation
    wms_df,           \* reconcile: frame fetched from the WMS
    erp_df,           \* reconcile: frame fetched from the ERP
    merged,           \* reconcile: rows of the joined frame, all columns set
    discrepancies,    \* rows returned by reconcile
    categories,       \* result of categorize_discrepancies
    threshold,        \* argument of auto_adjust_discrepancies
    adjust_outcome,   \* per adjustable row: did erp_client.adjust_inventory return
    erp_calls,        \* adjust_inventory calls received by the ERP client, in order
    adjustments,      \* list returned by auto_adjust_discrepancies
    rerror,           \* exception that left the reconciliation, or "none"
    dpc,              \* position of the caller of the detector
    wms_inventory,    \* scan: records returned by wms_client.get_all_inventory
    erp_inventory,    \* scan: records returned by erp_client.get_all_inventory
    negative_items,   \* rows returned by scan_for_negative_stock
    derror,           \* exception that left the detector, or "none"
    potential_causes, \* analysis['potential_causes']
    lookup,           \* per item: what the clients answered to identify_causes
    causes,           \* list returned by a direct call of identify_causes
    actions,          \* list returned by create_remediation_plan
    run_steps         \* run_detection: the methods and clients it has invoked

rvars == <<tolerance, rpc, wms_df, erp_df, merged, discrepancies, categories,
           threshold, adjust_outcome, erp_calls, adjustments, rerror>>
dvars == <<dpc, wms_inventory, erp_inventory, negative_items, derror,
           potential_causes, lookup, causes, actions, run_steps>>
vars == <<rvars, dvars>>

(***************************************************************************)
(* Bounds and input domains.                                               *)
(***************************************************************************)
MaxRecs == 2
MaxRows == 2
MaxItems == 2
MaxHist == 3
MaxRunRecs == 1

Skus == {"A1", "B2"}
Locations == {"W1"}
\* Quantities get_inventory reports per sku: within a key their differences,
\* and their distances to 0, hit 0, 1, 10, 11, 50, 51, 100 and 101.
Qty == [A1 |-> {-10, 0, 1}, B2 |-> {1, 51, 101}]
\* Quantities get_all_inventory reports
ScanQty == {-10, -1, 0}
\* The (sku, location) keys in lexicographic order.
SortedKeys == <<[sku |-> "A1", location |-> "W1"], [sku |-> "B2", location |-> "W1"]>>
InvRec == {r \in [sku : Skus, location : Locations, quantity : Qty.A1 \cup Qty.B2] :
              r.quantity \in Qty[r.sku]}
AllInvRec == [sku : Skus, location : Locations, quantity : ScanQty]
\* 0.01 (the default) and 1.0
Tolerances == {1, 100}
Thresholds == {10, 50}

SeqsUpTo(S, n) == UNION {[1..k -> S] : k \in 0..n}
Snapshots == SeqsUpTo(InvRec, MaxRecs)
AllSnapshots == SeqsUpTo(AllInvRec, MaxRecs)

Abs(x) == IF x < 0 THEN -x ELSE x
Range(s) == {s[i] : i \in DOMAIN s}
KeyOf(r) == [sku |-> r.sku, location |-> r.location]

RECURSIVE Concat(_)
Concat(ss) == IF ss = <<>> THEN <<>> ELSE Head(ss) \o Concat(Tail(ss))

(***************************************************************************)
(* pandas                                                                  *)
(***************************************************************************)
\* pd.DataFrame(list of dicts): the columns are the keys of the dicts.
DataFrame(records) ==
    [columns |-> IF records = <<>> THEN {} ELSE {"sku", "location", "quantity"},
     rows |-> records]

\* Rows of pd.merge(left, right, on=['sku','location'], how='outer',
\* suffixes=('_wms','_erp')): keys in lexicographic order, for each key every
\* pairing of a left row with a right row, and an absent side as NaN (<<>>).
MergeKeyRows(l, r, k) ==
    LET L == SelectSeq(l, LAMBDA x : KeyOf(x) = k)
        R == SelectSeq(r, LAMBDA x : KeyOf(x) = k)
        row(qw, qe) == [sku |-> k.sku, location |-> k.location,
                        quantity_wms |-> qw, quantity_erp |-> qe]
    IN  IF L = <<>> /\ R = <<>> THEN <<>>
        ELSE IF R = <<>> THEN [i \in 1..Len(L) |-> row(<<L[i].quantity>>, <<>>)]
        ELSE IF L = <<>> THEN [i \in 1..Len(R) |-> row(<<>>, <<R[i].quantity>>)]
        ELSE [n \in 1..(Len(L) * Len(R)) |->
                 row(<<L[((n - 1) \div Len(R)) + 1].quantity>>,
                     <<R[((n - 1) % Len(R)) + 1].quantity>>)]

OuterMerge(l, r) ==
    Concat([i \in 1..Len(SortedKeys) |-> MergeKeyRows(l, r, SortedKeys[i])])

\* Series.fillna(0)
FillNa(c) == IF c = <<>> THEN 0 ELSE c[1]

\* Series.replace(0, 1)
ReplaceZero(q) == IF q = 0 THEN 1 ELSE q

(***************************************************************************)
(* WMSERPReconciliation.reconcile, after the two fetches                   *)
(***************************************************************************)
Variance(qw, qe) == qw - qe

\* variance / quantity_erp.replace(0, 1) * 100, kept as an exact fraction
VariancePct(v, qe) == [num |-> v * 100, den |-> ReplaceZero(qe)]

\* Faulty variant: the tolerance bound taken as inclusive
IsDiscrepancyInclusive(pct, tol) == Abs(pct.num) >= tol * Abs(pct.den)

\* abs(variance_pct) > tolerance * 100
IsDiscrepancy(pct, tol) == Abs(pct.num) > tol * Abs(pct.den)

JoinedRow(m, tol) ==
    LET qw == FillNa(m.quantity_wms)
        qe == FillNa(m.quantity_erp)
        v == Variance(qw, qe)
        pct == VariancePct(v, qe)
    IN  [sku |-> m.sku, location |-> m.location,
         quantity_wms |-> qw, quantity_erp |-> qe,
         variance |-> v, variance_pct |-> pct,
         is_discrepancy |-> IsDiscrepancy(pct, tol)]

Joined(l, r, tol) ==
    LET m == OuterMerge(l, r)
    IN  [i \in 1..Len(m) |-> JoinedRow(m[i], tol)]

FilterDiscrepancies(rows) == SelectSeq(rows, LAMBDA x : x.is_discrepancy)

(***************************************************************************)
(* WMSERPReconciliation.categorize_discrepancies                           *)
(***************************************************************************)
\* Faulty variant: medium starts at 10, so 10 is both low and medium
CategorizeOverlap(d) ==
    [critical |-> SelectSeq(d, LAMBDA x : Abs(x.variance) > 100),
     high |-> SelectSeq(d, LAMBDA x : Abs(x.variance) > 50 /\ Abs(x.variance) <= 100),
     medium |-> SelectSeq(d, LAMBDA x : Abs(x.variance) >= 10 /\ Abs(x.variance) <= 50),
     low |-> SelectSeq(d, LAMBDA x : Abs(x.variance) <= 10),
     negative_stock |-> SelectSeq(d, LAMBDA x : x.quantity_wms < 0 \/ x.quantity_erp < 0),
     missing_in_wms |-> SelectSeq(d, LAMBDA x : x.quantity_wms = 0),
     missing_in_erp |-> SelectSeq(d, LAMBDA x : x.quantity_erp = 0)]

Categorize(d) ==
    [critical |-> SelectSeq(d, LAMBDA x : Abs(x.variance) > 100),
     high |-> SelectSeq(d, LAMBDA x : Abs(x.variance) > 50 /\ Abs(x.variance) <= 100),
     medium |-> SelectSeq(d, LAMBDA x : Abs(x.variance) > 10 /\ Abs(x.variance) <= 50),
     low |-> SelectSeq(d, LAMBDA x : Abs(x.variance) <= 10),
     negative_stock |-> SelectSeq(d, LAMBDA x : x.quantity_wms < 0 \/ x.quantity_erp < 0),
     missing_in_wms |-> SelectSeq(d, LAMBDA x : x.quantity_wms = 0),
     missing_in_erp |-> SelectSeq(d, LAMBDA x : x.quantity_erp = 0)]

(***************************************************************************)
(* WMSERPReconciliation.auto_adjust_discrepancies                          *)
(***************************************************************************)
\* Faulty variant: the threshold taken as exclusive
AdjustableStrict(d, th) == SelectSeq(d, LAMBDA x : Abs(x.variance) < th)

Adjustable(d, th) == SelectSeq(d, LAMBDA x : Abs(x.variance) <= th)

\* Faulty variant: the first failed call ends the loop
RECURSIVE AdjustLoopAbort(_, _, _, _)
AdjustLoopAbort(rows, ok, i, acc) ==
    IF i > Len(rows) THEN acc
    ELSE LET row == rows[i]
             adjustment == [sku |-> row.sku, location |-> row.location,
                            old_quantity |-> row.quantity_erp,
                            new_quantity |-> row.quantity_wms]
             call == [sku |-> row.sku, location |-> row.location,
                      new_quantity |-> row.quantity_wms]
         IN  IF ok[i]
             THEN AdjustLoopAbort(rows, ok, i + 1,
                      [calls |-> Append(acc.calls, call),
                       adjustments |-> Append(acc.adjustments, adjustment)])
             ELSE [calls |-> Append(acc.calls, call), adjustments |-> acc.adjustments]

\* The loop over adjustable.iterrows(): row i is sent to the ERP; the
\* adjustment is appended only when adjust_inventory returned (ok[i]).
RECURSIVE AdjustLoop(_, _, _, _)
AdjustLoop(rows, ok, i, acc) ==
    IF i > Len(rows) THEN acc
    ELSE LET row == rows[i]
             adjustment == [sku |-> row.sku, location |-> row.location,
                            old_quantity |-> row.quantity_erp,
                            new_quantity |-> row.quantity_wms]
             call == [sku |-> row.sku, location |-> row.location,
                      new_quantity |-> row.quantity_wms]
         IN  AdjustLoop(rows, ok, i + 1,
                 [calls |-> Append(acc.calls, call),
                  adjustments |-> IF ok[i] THEN Append(acc.adjustments, adjustment)
                                  ELSE acc.adjustments])

AutoAdjustResult(d, th, ok) ==
    AdjustLoop(Adjustable(d, th), ok, 1, [calls |-> <<>>, adjustments |-> <<>>])

(***************************************************************************)
(* NegativeStockDetector.scan_for_negative_stock                           *)
(***************************************************************************)
Sources == {"WMS", "ERP"}

\* df[df['quantity'] < 0].copy() with the column source set
NegativeRows(records, source) ==
    LET neg == SelectSeq(records, LAMBDA x : x.quantity < 0)
    IN  [i \in 1..Len(neg) |->
            [sku |-> neg[i].sku, location |-> neg[i].location,
             quantity |-> neg[i].quantity, source |-> source]]

\* Faulty variant: an ERP row whose key already has a WMS row is dropped
ScanResultMerged(w, e) ==
    NegativeRows(w, "WMS")
        \o SelectSeq(NegativeRows(e, "ERP"),
                     LAMBDA x : \A i \in DOMAIN NegativeRows(w, "WMS") :
                                    KeyOf(NegativeRows(w, "WMS")[i]) # KeyOf(x))

\* pd.concat([wms_negative, erp_negative], ignore_index=True)
ScanResult(w, e) == NegativeRows(w, "WMS") \o NegativeRows(e, "ERP")

(***************************************************************************)
(* NegativeStockDetector.identify_causes                                   *)
(***************************************************************************)
TxnTypes == {"shipment", "receipt", "adjustment"}
TxnQty == {-20, 20}
Txn == [type : TxnTypes, quantity : TxnQty]
Histories == SeqsUpTo(Txn, MaxHist)
PendingLists == {<<>>, <<[receipt |-> "R1"]>>}

\* What the two clients answer to one identify_causes: the history query
\* returns a list or raises; only if it returned is the pending receipt
\* query made, which returns a list or raises.
Lookups ==
    {[history_ok |-> FALSE, history |-> <<>>, pending_ok |-> FALSE, pending |-> <<>>]}
    \cup [history_ok : {TRUE}, history : Histories, pending_ok : {FALSE}, pending : {<<>>}]
    \cup [history_ok : {TRUE}, history : Histories, pending_ok : {TRUE}, pending : PendingLists]

RECURSIVE SumQuantity(_)
SumQuantity(ts) == IF ts = <<>> THEN 0 ELSE Head(ts).quantity + SumQuantity(Tail(ts))

OfType(history, t) == SelectSeq(history, LAMBDA x : x.type = t)

\* Faulty variant: any shipment counts as over-shipment, whatever the total
HistoryCausesAnyShipment(history) ==
    LET shipments == OfType(history, "shipment")
        receipts == OfType(history, "receipt")
        adjustments_ == OfType(history, "adjustment")
        negative_adjustments == SelectSeq(adjustments_, LAMBDA a : a.quantity < 0)
        c1 == IF shipments # <<>>
              THEN <<"Over-shipment detected">> ELSE <<>>
        c2 == IF receipts = <<>>
              THEN Append(c1, "No receipts in past 7 days") ELSE c1
        c3 == IF negative_adjustments # <<>>
              THEN Append(c2, "Recent negative adjustments") ELSE c2
    IN  c3

\* The causes after the three history rules, in the order of the code
HistoryCauses(history) ==
    LET shipments == OfType(history, "shipment")
        receipts == OfType(history, "receipt")
        adjustments_ == OfType(history, "adjustment")
        negative_adjustments == SelectSeq(adjustments_, LAMBDA a : a.quantity < 0)
        c1 == IF shipments # <<>> /\ SumQuantity(shipments) > 0
              THEN <<"Over-shipment detected">> ELSE <<>>
        c2 == IF receipts = <<>>
              THEN Append(c1, "No receipts in past 7 days") ELSE c1
        c3 == IF negative_adjustments # <<>>
              THEN Append(c2, "Recent negative adjustments") ELSE c2
    IN  c3

\* identify_causes: an exception of either query is caught after the labels
\* appended so far, and "Unable to determine cause" is appended to them.
IdentifyCauses(lk) ==
    LET found ==
            IF ~lk.history_ok THEN <<"Unable to determine cause">>
            ELSE IF ~lk.pending_ok
            THEN Append(HistoryCauses(lk.history), "Unable to determine cause")
            ELSE IF lk.pending # <<>>
            THEN Append(HistoryCauses(lk.history), "Pending receipts not yet processed")
            ELSE HistoryCauses(lk.history)
    IN  IF found # <<>> THEN found ELSE <<"Unknown cause">>

(***************************************************************************)
(* NegativeStockDetector.analyze_negative_stock                            *)
(***************************************************************************)
\* Faulty variant: a failed lookup is not caught and ends the loop
RECURSIVE AnalyzeLoopAbort(_, _, _, _)
AnalyzeLoopAbort(items, lks, i, acc) ==
    IF i > Len(items) THEN acc
    ELSE IF ~lks[i].history_ok \/ ~lks[i].pending_ok THEN acc
    ELSE AnalyzeLoopAbort(items, lks, i + 1,
             Append(acc, [sku |-> items[i].sku, location |-> items[i].location,
                          quantity |-> items[i].quantity,
                          causes |-> IdentifyCauses(lks[i])]))

\* The loop over negative_items.iterrows(): one finding appended per item.
RECURSIVE AnalyzeLoop(_, _, _, _)
AnalyzeLoop(items, lks, i, acc) ==
    IF i > Len(items) THEN acc
    ELSE AnalyzeLoop(items, lks, i + 1,
             Append(acc, [sku |-> items[i].sku, location |-> items[i].location,
                          quantity |-> items[i].quantity,
                          causes |-> IdentifyCauses(lks[i])]))

PotentialCauses(items, lks) == AnalyzeLoop(items, lks, 1, <<>>)

(***************************************************************************)
(* NegativeStockDetector.create_remediation_plan                           *)
(***************************************************************************)
Action(f, action, priority, description) ==
    [sku |-> f.sku, location |-> f.location, action |-> action,
     priority |-> priority, description |-> description]

Contains(cs, label) == \E i \in DOMAIN cs : cs[i] = label

\* Faulty variant: the four tests chained with elif, one action per finding
ActionsForFirstMatch(f) ==
    IF Contains(f.causes, "Over-shipment detected")
    THEN <<Action(f, "investigate_shipments", "high", "Review recent shipments for errors")>>
    ELSE IF Contains(f.causes, "No receipts in past 7 days")
    THEN <<Action(f, "check_purchase_orders", "high", "Verify pending purchase orders")>>
    ELSE IF Contains(f.causes, "Pending receipts not yet processed")
    THEN <<Action(f, "process_pending_receipts", "critical",
                  "Expedite pending receipt processing")>>
    ELSE IF Contains(f.causes, "Unknown cause")
    THEN <<Action(f, "manual_investigation", "high", "Manual review required")>>
    ELSE <<>>

\* The four tests of one loop iteration, in the order of the code
ActionsFor(f) ==
    (IF Contains(f.causes, "Over-shipment detected")
     THEN <<Action(f, "investigate_shipments", "high", "Review recent shipments for errors")>>
     ELSE <<>>)
    \o (IF Contains(f.causes, "No receipts in past 7 days")
        THEN <<Action(f, "check_purchase_orders", "high", "Verify pending purchase orders")>>
        ELSE <<>>)
    \o (IF Contains(f.causes, "Pending receipts not yet processed")
        THEN <<Action(f, "process_pending_receipts", "critical",
                      "Expedite pending receipt processing")>>
        ELSE <<>>)
    \o (IF Contains(f.causes, "Unknown cause")
        THEN <<Action(f, "manual_investigation", "high", "Manual review required")>>
        ELSE <<>>)

RemediationPlan(findings) ==
    Concat([i \in 1..Len(findings) |-> ActionsFor(findings[i])])

NoCategories ==
    [critical |-> <<>>, high |-> <<>>, medium |-> <<>>, low |-> <<>>,
     negative_stock |-> <<>>, missing_in_wms |-> <<>>, missing_in_erp |-> <<>>]
NoFrame == [columns |-> {}, rows |-> <<>>]

RIdle ==
    /\ rpc = "idle"
    /\ wms_df = NoFrame /\ erp_df = NoFrame
    /\ merged = <<>> /\ discrepancies = <<>>
    /\ categories = NoCategories
    /\ threshold = 0 /\ adjust_outcome = <<>>
    /\ erp_calls = <<>> /\ adjustments = <<>>
    /\ rerror = "none"

DIdle ==
    /\ dpc = "idle"
    /\ wms_inventory = <<>> /\ erp_inventory = <<>>
    /\ negative_items = <<>>
    /\ derror = "none"
    /\ potential_causes = <<>>
    /\ lookup = <<>>
    /\ causes = <<>>
    /\ actions = <<>>
    /\ run_steps = <<>>

\* WMSERPReconciliation(wms_client, erp_client, tolerance)
InitRecon ==
    /\ tolerance \in Tolerances
    /\ RIdle
    /\ DIdle

\* reconcile(): both fetches, the join, the variance columns and the filter.
\* A fetch that raises is re-raised; the ERP is fetched only after the WMS.
Reconcile ==
    /\ rpc = "idle"
    /\ \E wms_ok \in BOOLEAN, erp_ok \in BOOLEAN, w \in Snapshots, e \in Snapshots :
        IF ~wms_ok
        THEN /\ w = <<>> /\ e = <<>> /\ erp_ok
             /\ rpc' = "raised" /\ rerror' = "FetchError"
             /\ UNCHANGED <<wms_df, erp_df, merged, discrepancies>>
        ELSE IF ~erp_ok
        THEN /\ e = <<>>
             /\ wms_df' = DataFrame(w)
             /\ rpc' = "raised" /\ rerror' = "FetchError"
             /\ UNCHANGED <<erp_df, merged, discrepancies>>
        ELSE /\ wms_df' = DataFrame(w)
             /\ erp_df' = DataFrame(e)
             /\ IF {"sku", "location"} \subseteq (DataFrame(w).columns \cap DataFrame(e).columns)
                THEN /\ merged' = Joined(w, e, tolerance)
                     /\ discrepancies' = FilterDiscrepancies(Joined(w, e, tolerance))
                     /\ rpc' = "reconciled" /\ rerror' = "none"
                ELSE /\ rpc' = "raised" /\ rerror' = "KeyError"
                     /\ UNCHANGED <<merged, discrepancies>>
    /\ UNCHANGED <<tolerance, categories, threshold, adjust_outcome, erp_calls, adjustments>>
    /\ UNCHANGED dvars

\* categorize_discrepancies(discrepancies) on the rows reconcile returned
CategorizeDiscrepancies ==
    /\ rpc = "reconciled"
    /\ categories' = Categorize(discrepancies)
    /\ rpc' = "categorized"
    /\ UNCHANGED <<tolerance, wms_df, erp_df, merged, discrepancies, threshold,
                   adjust_outcome, erp_calls, adjustments, rerror>>
    /\ UNCHANGED dvars

\* auto_adjust_discrepancies(discrepancies, threshold) on the rows reconcile
\* returned; every adjust_inventory call returns or raises as the ERP decides.
AutoAdjustDiscrepancies ==
    /\ rpc = "reconciled"
    /\ \E th \in Thresholds :
       \E ok \in [1..Len(Adjustable(discrepancies, th)) -> BOOLEAN] :
          /\ threshold' = th
          /\ adjust_outcome' = ok
          /\ erp_calls' = AutoAdjustResult(discrepancies, th, ok).calls
          /\ adjustments' = AutoAdjustResult(discrepancies, th, ok).adjustments
    /\ rpc' = "adjusted"
    /\ UNCHANGED <<tolerance, wms_df, erp_df, merged, discrepancies, categories, rerror>>
    /\ UNCHANGED dvars

NextRecon == Reconcile \/ CategorizeDiscrepancies

SpecRecon == InitRecon /\ [][NextRecon]_vars

\* The rows reconcile can return at the default tolerance: a key with the
\* quantities of its sku, or 0 for the side that has no record of it.
DiscrepancyRows ==
    {r \in {JoinedRow([sku |-> k.sku, location |-> k.location,
                        quantity_wms |-> <<qw>>, quantity_erp |-> <<qe>>], 1) :
                k \in Range(SortedKeys),
                qw \in Qty.A1 \cup Qty.B2 \cup {0},
                qe \in Qty.A1 \cup Qty.B2 \cup {0}} :
        /\ r.quantity_wms \in Qty[r.sku] \cup {0}
        /\ r.quantity_erp \in Qty[r.sku] \cup {0}
        /\ r.is_discrepancy}

\* auto_adjust_discrepancies(discrepancies, threshold) called on a frame of
\* discrepancy rows
InitAdjust ==
    /\ tolerance = 1
    /\ rpc = "reconciled"
    /\ wms_df = NoFrame /\ erp_df = NoFrame
    /\ merged = <<>>
    /\ discrepancies \in SeqsUpTo(DiscrepancyRows, MaxRows)
    /\ categories = NoCategories
    /\ threshold = 0 /\ adjust_outcome = <<>>
    /\ erp_calls = <<>> /\ adjustments = <<>>
    /\ rerror = "none"
    /\ DIdle

NextAdjust == AutoAdjustDiscrepancies

SpecAdjust == InitAdjust /\ [][NextAdjust]_vars

(***************************************************************************)
(* The detector                                                            *)
(***************************************************************************)
InitScan ==
    /\ tolerance = 1
    /\ RIdle
    /\ DIdle

\* scan_for_negative_stock(): both fetches, then the two filters and the
\* concatenation. A fetch that raises leaves the method; so does the filter
\* on a frame that has no quantity column.
ScanForNegativeStock ==
    /\ dpc = "idle"
    /\ \E wms_ok \in BOOLEAN, erp_ok \in BOOLEAN, w \in AllSnapshots, e \in AllSnapshots :
        IF ~wms_ok
        THEN /\ w = <<>> /\ e = <<>> /\ erp_ok
             /\ dpc' = "raised" /\ derror' = "FetchError"
             /\ UNCHANGED <<wms_inventory, erp_inventory, negative_items>>
        ELSE IF ~erp_ok
        THEN /\ e = <<>>
             /\ wms_inventory' = w
             /\ dpc' = "raised" /\ derror' = "FetchError"
             /\ UNCHANGED <<erp_inventory, negative_items>>
        ELSE /\ wms_inventory' = w
             /\ erp_inventory' = e
             /\ IF "quantity" \in DataFrame(w).columns /\ "quantity" \in DataFrame(e).columns
                THEN /\ negative_items' = ScanResult(w, e)
                     /\ dpc' = "scanned" /\ derror' = "none"
                ELSE /\ dpc' = "raised" /\ derror' = "KeyError"
                     /\ UNCHANGED negative_items
    /\ UNCHANGED <<potential_causes, lookup, causes, actions, run_steps>>
    /\ UNCHANGED rvars

NextScan == ScanForNegativeStock

SpecScan == InitScan /\ [][NextScan]_vars

\* Rows a scan can return: the WMS row of either sku and the ERP row of one
Items ==
    [sku : Skus, location : Locations, quantity : {-10}, source : {"WMS"}]
    \cup {[sku |-> "A1", location |-> "W1", quantity |-> -1, source |-> "ERP"]}

\* One lookup for every cause list identify_causes can return
RepresentativeLookups ==
    {CHOOSE lk \in Lookups : IdentifyCauses(lk) = c : c \in {IdentifyCauses(lk) : lk \in Lookups}}

\* identify_causes(item) called on one negative row
InitIdentify ==
    /\ tolerance = 1
    /\ RIdle
    /\ dpc = "identifying"
    /\ wms_inventory = <<>> /\ erp_inventory = <<>>
    /\ negative_items \in [1..1 -> Items]
    /\ derror = "none"
    /\ potential_causes = <<>>
    /\ lookup = <<>>
    /\ causes = <<>>
    /\ actions = <<>>
    /\ run_steps = <<>>

\* identify_causes(): the clients answer the two queries as they decide.
IdentifyItemCauses ==
    /\ dpc = "identifying"
    /\ \E lk \in Lookups :
          /\ lookup' = <<lk>>
          /\ causes' = IdentifyCauses(lk)
    /\ dpc' = "identified"
    /\ UNCHANGED <<wms_inventory, erp_inventory, negative_items, derror,
                   potential_causes, actions, run_steps>>
    /\ UNCHANGED rvars

NextIdentify == IdentifyItemCauses

SpecIdentify == InitIdentify /\ [][NextIdentify]_vars


\* analyze_negative_stock(negative_items) called on a frame of negative rows
InitAnalyze ==
    /\ tolerance = 1
    /\ RIdle
    /\ dpc = "analyzing"
    /\ wms_inventory = <<>> /\ erp_inventory = <<>>
    /\ negative_items \in SeqsUpTo(Items, MaxItems)
    /\ derror = "none"
    /\ potential_causes = <<>>
    /\ lookup = <<>>
    /\ causes = <<>>
    /\ actions = <<>>
    /\ run_steps = <<>>

\* analyze_negative_stock(): identify_causes for every item, in order; the
\* clients answer each item's queries as they decide.
AnalyzeNegativeStock ==
    /\ dpc = "analyzing"
    /\ \E lks \in [1..Len(negative_items) -> RepresentativeLookups] :
          /\ lookup' = lks
          /\ potential_causes' = PotentialCauses(negative_items, lks)
    /\ dpc' = "analyzed"
    /\ UNCHANGED <<wms_inventory, erp_inventory, negative_items, derror, causes, actions,
                   run_steps>>
    /\ UNCHANGED rvars

\* create_remediation_plan(analysis)
CreateRemediationPlan ==
    /\ dpc = "analyzed"
    /\ actions' = RemediationPlan(potential_causes)
    /\ dpc' = "planned"
    /\ UNCHANGED <<wms_inventory, erp_inventory, negative_items, derror,
                   potential_causes, lookup, causes, run_steps>>
    /\ UNCHANGED rvars

NextAnalyze == AnalyzeNegativeStock \/ CreateRemediationPlan

SpecAnalyze == InitAnalyze /\ [][NextAnalyze]_vars

(***************************************************************************)
(* NegativeStockDetector.run_detection                                     *)
(***************************************************************************)
\* The lists get_all_inventory answers a run with: records of one item, at a
\* negative or at a zero quantity
RunInvRec == [sku : {"A1"}, location : Locations, quantity : {-1, 0}]
RunSnapshots == SeqsUpTo(RunInvRec, MaxRunRecs)

\* The answers of the clients for an item they hold no transaction of
RunLookups ==
    {[history_ok |-> FALSE, history |-> <<>>, pending_ok |-> FALSE, pending |-> <<>>]}
    \cup [history_ok : {TRUE}, history : {<<>>}, pending_ok : {FALSE}, pending : {<<>>}]
    \cup [history_ok : {TRUE}, history : {<<>>}, pending_ok : {TRUE}, pending : PendingLists]

\* send_alerts on a non-empty frame: generate_report is evaluated inside the
\* try block as an argument of send_alert, so send_alert is called only if
\* the report was written, and either failure is caught and logged.
SendAlertsSteps(report_ok, alert_ok) ==
    <<"send_alerts", "generate_report">>
        \o (IF report_ok THEN <<"alert_client.send_alert">> ELSE <<>>)
        \o (IF report_ok /\ alert_ok THEN <<"log: Alert sent successfully">>
            ELSE <<"log: Failed to send alert">>)

RunRaised(error, w, e) ==
    [pc |-> "raised", error |-> error, wms |-> w, erp |-> e, items |-> <<>>,
     lookups |-> <<>>, findings |-> <<>>, plan |-> <<>>,
     steps |-> <<"scan_for_negative_stock">>]

\* Faulty variant: a failed ERP fetch is logged and the run goes on with the
\* rows of the WMS alone
RunOutcomePartial(wms_ok, erp_ok, w, e, lks, report_ok, alert_ok) ==
    IF ~wms_ok THEN RunRaised("FetchError", <<>>, <<>>)
    ELSE IF "quantity" \notin DataFrame(w).columns THEN RunRaised("KeyError", w, <<>>)
    ELSE LET items == NegativeRows(w, "WMS")
             findings == PotentialCauses(items, lks)
         IN  [pc |-> "done", error |-> IF erp_ok THEN "none" ELSE "FetchError",
              wms |-> w, erp |-> <<>>, items |-> items,
              lookups |-> [i \in 1..Len(items) |-> lks[i]],
              findings |-> findings, plan |-> RemediationPlan(findings),
              steps |-> <<"scan_for_negative_stock", "analyze_negative_stock",
                          "create_remediation_plan">>
                            \o SendAlertsSteps(report_ok, alert_ok)]

\* run_detection(): the scan, and for a non-empty result the analysis, the
\* plan and the alert. Nothing catches an exception of the scan.
RunOutcome(wms_ok, erp_ok, w, e, lks, report_ok, alert_ok) ==
    IF ~wms_ok THEN RunRaised("FetchError", <<>>, <<>>)
    ELSE IF ~erp_ok THEN RunRaised("FetchError", w, <<>>)
    ELSE IF "quantity" \notin DataFrame(w).columns \/ "quantity" \notin DataFrame(e).columns
    THEN RunRaised("KeyError", w, e)
    ELSE LET items == ScanResult(w, e)
             findings == PotentialCauses(items, lks)
         IN  IF Len(items) > 0
             THEN [pc |-> "done", error |-> "none", wms |-> w, erp |-> e,
                   items |-> items,
                   lookups |-> [i \in 1..Len(items) |-> lks[i]],
                   findings |-> findings, plan |-> RemediationPlan(findings),
                   steps |-> <<"scan_for_negative_stock", "analyze_negative_stock",
                               "create_remediation_plan">>
                                 \o SendAlertsSteps(report_ok, alert_ok)]
             ELSE [pc |-> "done", error |-> "none", wms |-> w, erp |-> e,
                   items |-> <<>>, lookups |-> <<>>, findings |-> <<>>,
                   plan |-> <<>>, steps |-> <<"scan_for_negative_stock">>]

\* run_detection() as one call: the clients answer every request as they
\* decide (a request that is not made has no answer to choose).
RunDetection ==
    /\ dpc = "idle"
    /\ \E wms_ok \in BOOLEAN, erp_ok \in BOOLEAN, w \in RunSnapshots, e \in RunSnapshots,
          report_ok \in BOOLEAN, alert_ok \in BOOLEAN :
       \E lks \in [1..(Len(NegativeRows(w, "WMS")) + Len(NegativeRows(e, "ERP"))) -> RunLookups] :
          LET out == RunOutcome(wms_ok, erp_ok, w, e, lks, report_ok, alert_ok)
          IN  /\ ~wms_ok => (w = <<>> /\ e = <<>> /\ erp_ok)
              /\ ~erp_ok => e = <<>>
              /\ dpc' = out.pc
              /\ derror' = out.error
              /\ wms_inventory' = out.wms
              /\ erp_inventory' = out.erp
              /\ negative_items' = out.items
              /\ lookup' = out.lookups
              /\ potential_causes' = out.findings
              /\ actions' = out.plan
              /\ run_steps' = out.steps
    /\ UNCHANGED causes
    /\ UNCHANGED rvars

\* One entry point is called on a fresh pair of objects: reconcile,
\* scan_for_negative_stock or run_detection.
InitFetch ==
    /\ tolerance \in Tolerances
    /\ RIdle
    /\ DIdle

ReconcileCall == dpc = "idle" /\ Reconcile
ScanCall == rpc = "idle" /\ ScanForNegativeStock
RunDetectionCall == rpc = "idle" /\ RunDetection

NextFetch == ReconcileCall \/ ScanCall \/ RunDetectionCall

SpecFetch == InitFetch /\ [][NextFetch]_vars

(***************************************************************************)
(* Vocabulary of the properties                                            *)
(***************************************************************************)
RECURSIVE SortedIdx(_)
SortedIdx(I) ==
    IF I = {} THEN <<>>
    ELSE LET m == CHOOSE x \in I : \A y \in I : x <= y
         IN  <<m>> \o SortedIdx(I \ {m})

\* The rows of s at the indices I, in the order of s
Pick(s, I) == [j \in 1..Cardinality(I) |-> s[SortedIdx(I)[j]]]

ReconcileReturned == rpc \in {"reconciled", "categorized", "adjusted"}

\* |variance_pct| > tolerance percentage, stated on the quantities of a row
OutsideTolerance(row) ==
    IF row.quantity_erp = 0
    THEN Abs(row.quantity_wms) * 100 > tolerance
    ELSE Abs(row.quantity_wms - row.quantity_erp) * 100 > tolerance * Abs(row.quantity_erp)

\* C2: auto_adjust_discrepancies calls adjust_inventory only for records with
\* |variance| <= threshold, the bound included: there are as many calls as
\* records within the threshold, each call is for such a record, and a key
\* whose records all exceed the threshold receives no call.
C2_AdjustOnlyWithinThreshold ==
    rpc = "adjusted" =>
        LET within == {i \in DOMAIN discrepancies :
                          Abs(discrepancies[i].quantity_wms - discrepancies[i].quantity_erp)
                              <= threshold}
        IN  /\ Len(erp_calls) = Cardinality(within)
            /\ \A c \in Range(erp_calls) :
                   \E i \in within :
                       /\ discrepancies[i].sku = c.sku
                       /\ discrepancies[i].location = c.location
                       /\ discrepancies[i].quantity_wms = c.new_quantity

\* Threshold 10: of a record of variance 10 or -10 and a record of variance
\* 11 or -11, only the first was sent to the ERP.
C2_Witness ==
    /\ rpc = "adjusted"
    /\ threshold = 10
    /\ Len(discrepancies) = 2
    /\ \E i, j \in DOMAIN discrepancies :
           /\ Abs(discrepancies[i].variance) = 10
           /\ Abs(discrepancies[j].variance) = 11
           /\ discrepancies[i].quantity_wms # discrepancies[j].quantity_wms
           /\ Len(erp_calls) = 1
           /\ erp_calls[1].new_quantity = discrepancies[i].quantity_wms

\* C3: every adjustable record is attempted exactly once, in order, whatever
\* calls fail, and the returned list is exactly the records whose call
\* succeeded, in attempt order, with old_quantity = quantity_erp and
\* new_quantity = quantity_wms.
C3_AdjustBestEffort ==
    rpc = "adjusted" =>
        LET within == {i \in DOMAIN discrepancies :
                          Abs(discrepancies[i].variance) <= threshold}
            attempted == Pick(discrepancies, within)
            succeeded == Pick(attempted, {j \in DOMAIN attempted : adjust_outcome[j]})
        IN  /\ Len(adjust_outcome) = Len(attempted)
            /\ Len(erp_calls) = Len(attempted)
            /\ \A j \in DOMAIN attempted :
                   erp_calls[j] = [sku |-> attempted[j].sku,
                                   location |-> attempted[j].location,
                                   new_quantity |-> attempted[j].quantity_wms]
            /\ Len(adjustments) = Len(succeeded)
            /\ \A j \in DOMAIN succeeded :
                   adjustments[j] = [sku |-> succeeded[j].sku,
                                     location |-> succeeded[j].location,
                                     old_quantity |-> succeeded[j].quantity_erp,
                                     new_quantity |-> succeeded[j].quantity_wms]

\* A failed call was followed by a successful one on a different record.
C3_Witness ==
    /\ rpc = "adjusted"
    /\ Len(adjust_outcome) >= 2
    /\ ~adjust_outcome[1]
    /\ adjust_outcome[2]
    /\ Len(erp_calls) >= 2
    /\ erp_calls[1] # erp_calls[2]
    /\ Len(adjustments) >= 1
    /\ adjustments[1].new_quantity = erp_calls[2].new_quantity
    /\ adjustments[1].old_quantity # adjustments[1].new_quantity

\* C4: reconcile returns exactly the joined records with |variance_pct| above
\* the tolerance percentage, where variance = quantity_wms - quantity_erp with
\* its sign and the percentage is taken against 1 when quantity_erp is 0.
C4_ReconcileFiltersByTolerance ==
    ReconcileReturned =>
        /\ \A i \in DOMAIN merged :
               /\ merged[i].variance = merged[i].quantity_wms - merged[i].quantity_erp
               /\ merged[i].quantity_erp = 0 =>
                      /\ merged[i].variance_pct.den = 1
                      /\ merged[i].variance_pct.num = merged[i].quantity_wms * 100
               /\ merged[i].quantity_erp # 0 =>
                      merged[i].variance_pct.num * merged[i].quantity_erp
                          = merged[i].variance * 100 * merged[i].variance_pct.den
        /\ discrepancies = Pick(merged, {i \in DOMAIN merged : OutsideTolerance(merged[i])})

\* One joined record with ERP quantity 0 was returned, one with a non-zero
\* variance within tolerance was dropped, and one had a negative variance.
C4_Witness ==
    /\ rpc = "reconciled"
    /\ \E r \in Range(discrepancies) : r.quantity_erp = 0 /\ r.quantity_wms # 0
    /\ \E r \in Range(merged) : r.variance # 0 /\ r \notin Range(discrepancies)
    /\ \E r \in Range(merged) : r.variance < 0

SeverityOf(a) ==
    IF a > 100 THEN "critical"
    ELSE IF a > 50 THEN "high"
    ELSE IF a > 10 THEN "medium"
    ELSE "low"

Severities == {"critical", "high", "medium", "low"}

\* C5: every discrepancy record is in exactly one of the buckets critical,
\* high, medium, low, the one of its |variance|, with 10, 50 and 100 in low,
\* medium and high; the buckets hold nothing else.
C5_SeverityPartition ==
    rpc = "categorized" =>
        /\ \A r \in Range(discrepancies) :
               \A s \in Severities :
                   r \in Range(categories[s])
                       <=> s = SeverityOf(Abs(r.quantity_wms - r.quantity_erp))
        /\ \A s \in Severities :
               categories[s] = Pick(discrepancies,
                   {i \in DOMAIN discrepancies :
                       SeverityOf(Abs(discrepancies[i].variance)) = s})
        /\ Len(categories.critical) + Len(categories.high)
               + Len(categories.medium) + Len(categories.low) = Len(discrepancies)

\* Records of |variance| 10 and 100 were categorized, as low and high.
C5_Witness ==
    /\ rpc = "categorized"
    /\ \E r \in Range(categories.low) : Abs(r.variance) = 10
    /\ \E r \in Range(categories.high) : Abs(r.variance) = 100

LastQuantity(records, k) ==
    LET idx == {i \in DOMAIN records : KeyOf(records[i]) = k}
    IN  IF idx = {} THEN 0
        ELSE records[CHOOSE i \in idx : \A j \in idx : j <= i].quantity

\* C9: the joined record set holds exactly one record per (sku, location) key
\* of either snapshot, the absent side's quantity 0, and for a key that a
\* snapshot holds several times the last record of that snapshot.
C9_OneJoinedRecordPerKey ==
    rpc = "reconciled" =>
        LET present == {KeyOf(r) : r \in Range(wms_df.rows) \cup Range(erp_df.rows)}
        IN  /\ {KeyOf(r) : r \in Range(merged)} = present
            /\ \A k \in present :
                   /\ Cardinality({i \in DOMAIN merged : KeyOf(merged[i]) = k}) = 1
                   /\ \A i \in DOMAIN merged :
                          KeyOf(merged[i]) = k =>
                              /\ merged[i].quantity_wms = LastQuantity(wms_df.rows, k)
                              /\ merged[i].quantity_erp = LastQuantity(erp_df.rows, k)

Analyzed == dpc \in {"analyzed", "planned"}

LookupFailed(lk) == ~lk.history_ok \/ ~lk.pending_ok

\* C1: whenever the lookup of an item fails (the history query raises, or
\* the pending receipt query raises after the history query returned), the
\* cause list of its finding is exactly ["Unable to determine cause"].
C1_FailedLookupOnlyUnable ==
    (dpc = "identified" /\ LookupFailed(lookup[1])) =>
        causes = <<"Unable to determine cause">>

RuleLabels ==
    <<"Over-shipment detected", "No receipts in past 7 days",
      "Recent negative adjustments", "Pending receipts not yet processed">>

RECURSIVE ShippedTotal(_, _)
ShippedTotal(history, I) ==
    IF I = {} THEN 0
    ELSE LET i == CHOOSE x \in I : TRUE
         IN  (IF history[i].type = "shipment" THEN history[i].quantity ELSE 0)
                 + ShippedTotal(history, I \ {i})

RuleFires(n, lk) ==
    CASE n = 1 -> ShippedTotal(lk.history, DOMAIN lk.history) > 0
      [] n = 2 -> \A t \in Range(lk.history) : t.type # "receipt"
      [] n = 3 -> \E t \in Range(lk.history) : t.type = "adjustment" /\ t.quantity < 0
      [] n = 4 -> lk.pending # <<>>

\* C7: when both lookups of an item succeed, its cause list is the labels of
\* the rules that fire, in the fixed order of the rules and without
\* duplicates, and it is ["Unknown cause"] exactly when no rule fires: never
\* empty, and "Unknown cause" never next to another label.
C7_CausesAreFiredRulesInOrder ==
    (dpc = "identified" /\ ~LookupFailed(lookup[1])) =>
        LET fired == {n \in 1..4 : RuleFires(n, lookup[1])}
        IN  /\ fired # {} => causes = Pick(RuleLabels, fired)
            /\ fired = {} <=> causes = <<"Unknown cause">>
            /\ causes # <<>>
            /\ Contains(causes, "Unknown cause") => Len(causes) = 1
            /\ \A a, b \in DOMAIN causes : causes[a] = causes[b] => a = b

\* With a positive shipment total, no receipt, a negative adjustment next to
\* a positive one and a pending receipt, all four labels were returned in the
\* order of the rules.
C7_Witness ==
    /\ dpc = "identified"
    /\ ~LookupFailed(lookup[1])
    /\ Len(lookup[1].history) = 3
    /\ \E t \in Range(lookup[1].history) : t.type = "adjustment" /\ t.quantity > 0
    /\ causes = RuleLabels

PlanTable ==
    [c \in {"Over-shipment detected", "No receipts in past 7 days",
            "Pending receipts not yet processed", "Unknown cause"} |->
        CASE c = "Over-shipment detected" ->
                 [action |-> "investigate_shipments", priority |-> "high"]
          [] c = "No receipts in past 7 days" ->
                 [action |-> "check_purchase_orders", priority |-> "high"]
          [] c = "Pending receipts not yet processed" ->
                 [action |-> "process_pending_receipts", priority |-> "critical"]
          [] c = "Unknown cause" ->
                 [action |-> "manual_investigation", priority |-> "high"]]

TableCauses(f) == Range(f.causes) \cap DOMAIN PlanTable

RECURSIVE ActionsBefore(_, _)
ActionsBefore(findings, i) ==
    IF i <= 1 THEN 0
    ELSE ActionsBefore(findings, i - 1) + Cardinality(TableCauses(findings[i - 1]))

\* C8: the plan is the findings' actions in finding order; a finding gives
\* exactly one action per cause label of the table, with the table's action
\* and priority and the finding's sku and location, and none for "Recent
\* negative adjustments" or "Unable to determine cause"; a finding of exactly
\* ["Unknown cause"] gives exactly one manual_investigation/high action.
C8_PlanIsTableLookup ==
    dpc = "planned" =>
        /\ Len(actions) = ActionsBefore(potential_causes, Len(potential_causes) + 1)
        /\ \A i \in DOMAIN potential_causes :
               LET f == potential_causes[i]
                   first == ActionsBefore(potential_causes, i) + 1
                   last == ActionsBefore(potential_causes, i + 1)
               IN  /\ \A a \in first..last :
                          /\ actions[a].sku = f.sku
                          /\ actions[a].location = f.location
                          /\ \E c \in TableCauses(f) :
                                 /\ actions[a].action = PlanTable[c].action
                                 /\ actions[a].priority = PlanTable[c].priority
                   /\ \A c \in TableCauses(f) :
                          Cardinality({a \in first..last :
                              actions[a].action = PlanTable[c].action}) = 1
                   /\ f.causes = <<"Unknown cause">> =>
                          /\ last = first
                          /\ actions[first].action = "manual_investigation"
                          /\ actions[first].priority = "high"

\* A finding of ["Unknown cause"] was planned after a finding that holds
\* "Recent negative adjustments" and a label of the table, for another key.
C8_Witness ==
    /\ dpc = "planned"
    /\ Len(potential_causes) = 2
    /\ Contains(potential_causes[1].causes, "Recent negative adjustments")
    /\ Contains(potential_causes[1].causes, "Pending receipts not yet processed")
    /\ potential_causes[2].causes = <<"Unknown cause">>
    /\ potential_causes[1].sku # potential_causes[2].sku
    /\ Len(actions) = 2
    /\ actions[1].priority = "critical"
    /\ actions[2].action = "manual_investigation"

\* C10: analyze_negative_stock ends with exactly one finding per input item,
\* in input order, each with a non-empty cause list, whatever lookups fail; an
\* item whose own lookup succeeded has the finding of its own rules, whatever
\* happened to the other items, and only a failed item carries "Unable to
\* determine cause".
C10_AnalysisNeverAborts ==
    dpc = "analyzing" \/
        /\ Analyzed
        /\ derror = "none"
        /\ Len(lookup) = Len(negative_items)
        /\ Len(potential_causes) = Len(negative_items)
        /\ \A i \in DOMAIN negative_items :
               LET f == potential_causes[i]
                   fired == {n \in 1..4 : RuleFires(n, lookup[i])}
               IN  /\ f.sku = negative_items[i].sku
                   /\ f.location = negative_items[i].location
                   /\ f.quantity = negative_items[i].quantity
                   /\ f.causes # <<>>
                   /\ Contains(f.causes, "Unable to determine cause")
                          <=> LookupFailed(lookup[i])
                   /\ ~LookupFailed(lookup[i]) =>
                          f.causes = IF fired = {} THEN <<"Unknown cause">>
                                     ELSE Pick(RuleLabels, fired)

\* The first item's lookup failed and the second item, of another key, still
\* got the labels of its own rules.
C10_Witness ==
    /\ dpc = "analyzed"
    /\ Len(negative_items) = 2
    /\ negative_items[1].sku # negative_items[2].sku
    /\ LookupFailed(lookup[1])
    /\ ~LookupFailed(lookup[2])
    /\ potential_causes[2].sku = negative_items[2].sku
    /\ potential_causes[2].causes = <<"Over-shipment detected", "No receipts in past 7 days">>
    /\ Len(potential_causes[1].causes) = 2

\* C11: a source-fetch failure is a hard stop. If either inventory fetch
\* raises, the WMS one or the ERP one after the WMS one returned, reconcile and
\* scan_for_negative_stock leave by that error and return no result, and
\* run_detection makes no cause lookup, plans nothing, writes no report and
\* sends no alert after the failed fetch.
C11_FetchFailureIsHardStop ==
    /\ rerror = "FetchError" =>
           /\ rpc = "raised"
           /\ erp_df = NoFrame
           /\ merged = <<>>
           /\ discrepancies = <<>>
    /\ derror = "FetchError" =>
           /\ dpc = "raised"
           /\ erp_inventory = <<>>
           /\ negative_items = <<>>
           /\ lookup = <<>>
           /\ potential_causes = <<>>
           /\ actions = <<>>
           /\ \A i \in DOMAIN run_steps : run_steps[i] = "scan_for_negative_stock"
    /\ rpc = "reconciled" => rerror = "none"
    /\ dpc \in {"scanned", "done"} => derror = "none"

\* run_detection was left by the failure of the ERP fetch after the WMS had
\* returned a negative row.
C11_Witness ==
    /\ dpc = "raised"
    /\ derror = "FetchError"
    /\ run_steps = <<"scan_for_negative_stock">>
    /\ \E r \in Range(wms_inventory) : r.quantity < 0

====
